---- MODULE Spec2Model ----
(***************************************************************************)
(* A model of prcast: the pipeline process_pr (collect -> script -> audio  *)
(* -> manifest -> feeds), the renderer render_episode, the monologue       *)
(* parser _parse_monologue and the feed generators.                         *)
(*                                                                          *)
(* Text is modelled as a sequence of one-character strings; "LF" stands    *)
(* for the newline character and "SP" for a space.                          *)
(***************************************************************************)
EXTENDS Integers, Sequences, FiniteSets, TLC

(***************************************************************************)
(* Bounds of the exploration.                                               *)
(***************************************************************************)
\* the longest raw monologue the parser is applied to
MaxRawLen == 7
\* the number of process_pr invocations in one behaviour
MaxRuns == 3
\* the number of failed invocations after which another one is still started
MaxRestarts == 0
\* the longest script render_episode is called with on its own
MaxSegs == 3
\* the most runs of one repeated character in a diff collect_pr is given
MaxDiffRuns == 2

(***************************************************************************)
(* Text helpers (Python str methods).                                       *)
(***************************************************************************)
Whitespace == {"SP", "LF"}

RECURSIVE lstrip(_)
lstrip(s) ==
  IF s # <<>> /\ Head(s) \in Whitespace THEN lstrip(Tail(s)) ELSE s

RECURSIVE rstrip(_)
rstrip(s) ==
  IF s # <<>> /\ s[Len(s)] \in Whitespace
  THEN rstrip(SubSeq(s, 1, Len(s) - 1))
  ELSE s

\* str.strip(): leading and trailing whitespace removed
strip(s) == rstrip(lstrip(s))

\* the first index >= i where the separator LF LF starts, 0 when there is none
RECURSIVE FindBlankLine(_, _)
FindBlankLine(s, i) ==
  IF i + 1 > Len(s) THEN 0
  ELSE IF s[i] = "LF" /\ s[i + 1] = "LF" THEN i
  ELSE FindBlankLine(s, i + 1)

\* str.split("\n\n"): non-overlapping occurrences, scanned left to right
RECURSIVE split(_)
split(s) ==
  LET j == FindBlankLine(s, 1)
  IN  IF j = 0 THEN <<s>>
      ELSE <<SubSeq(s, 1, j - 1)>> \o split(SubSeq(s, j + 2, Len(s)))

\* settings.HOST_A_NAME
HOST_A_NAME == "Alex"

\* the loop body of _parse_monologue for the paragraphs not yet visited
RECURSIVE ParseParagraphs(_)
ParseParagraphs(paragraphs) ==
  IF paragraphs = <<>> THEN <<>>
  ELSE LET text == strip(Head(paragraphs))
       IN  (IF text # <<>>
            THEN <<[speaker |-> HOST_A_NAME, text |-> text]>>
            ELSE <<>>) \o ParseParagraphs(Tail(paragraphs))

\* a parser that keeps the paragraphs as they are split, untrimmed
ParseMonologueUntrimmed(raw) ==
  [i \in 1..Len(split(strip(raw))) |->
     [speaker |-> HOST_A_NAME, text |-> split(strip(raw))[i]]]

_parse_monologue(raw) == ParseParagraphs(split(strip(raw)))


(***************************************************************************)
(* Identifiers and paths.                                                   *)
(***************************************************************************)
\* str.lower() on the characters used in repository names
lower(c) ==
  CASE c = "A" -> "a"
    [] c = "B" -> "b"
    [] c = "C" -> "c"
    [] c = "X" -> "x"
    [] c = "Y" -> "y"
    [] OTHER -> c

\* repo.replace("/", "-").lower()
_repo_slug(repo) ==
  [i \in 1..Len(repo) |-> IF repo[i] = "/" THEN "-" ELSE lower(repo[i])]

DigitChars == <<"0", "1", "2", "3", "4", "5", "6", "7", "8", "9">>

\* str(n) for a natural number
RECURSIVE str(_)
str(n) ==
  IF n < 10 THEN <<DigitChars[n + 1]>>
  ELSE str(n \div 10) \o <<DigitChars[(n % 10) + 1]>>

\* f"{slug}-pr-{pr_number}"
EpisodeId(repo, pr_number) ==
  _repo_slug(repo) \o <<"-", "p", "r", "-">> \o str(pr_number)

\* the (repository, PR number) pairs the command line is invoked with
RepoABc == <<"a", "-", "b", "/", "c">>
RepoAbC == <<"a", "/", "b", "-", "c">>
RepoXy  == <<"X", "/", "y">>
Pairs == {<<RepoABc, 1>>, <<RepoAbC, 1>>, <<RepoABc, 2>>, <<RepoXy, 1>>}
Repos == {pair[1] : pair \in Pairs}

\* feeds/prcast.xml
MasterPath == <<"p", "r", "c", "a", "s", "t">>
\* feeds/{slug}.xml, by slug
FeedPaths == {_repo_slug(r) : r \in Repos} \cup {MasterPath}
\* audio/{slug}/{episode_id}.mp3, by <<slug, episode_id>>
AudioPath(repo, pr_number) == <<_repo_slug(repo), EpisodeId(repo, pr_number)>>
AudioPaths == {AudioPath(pair[1], pair[2]) : pair \in Pairs}
\* feeds/scripts/{episode_id}.json, by episode_id
ScriptPaths == {EpisodeId(pair[1], pair[2]) : pair \in Pairs}

(***************************************************************************)
(* The diff of a pull request: a text too long to hold character by        *)
(* character, kept as its runs of one repeated character; a run is          *)
(* [c |-> the character, n |-> how many times, n > 0].                      *)
(***************************************************************************)
\* the stop of the slice diff_resp.text[:50000]
DiffLimit == 50000

\* len(text)
RECURSIVE TextLen(_)
TextLen(text) ==
  IF text = <<>> THEN 0 ELSE Head(text).n + TextLen(Tail(text))

\* text[i], counting from 1
RECURSIVE CharAt(_, _)
CharAt(text, i) ==
  IF i <= Head(text).n THEN Head(text).c
  ELSE CharAt(Tail(text), i - Head(text).n)

\* a slice that keeps the character at the stop as well
RECURSIVE SliceThrough(_, _)
SliceThrough(text, stop) ==
  IF text = <<>> \/ stop < 0 THEN <<>>
  ELSE IF Head(text).n > stop
       THEN <<[c |-> Head(text).c, n |-> stop + 1]>>
       ELSE <<Head(text)>> \o SliceThrough(Tail(text), stop - Head(text).n)

\* text[:stop], for a stop that is not negative
RECURSIVE Slice(_, _)
Slice(text, stop) ==
  IF text = <<>> \/ stop <= 0 THEN <<>>
  ELSE IF Head(text).n >= stop
       THEN <<[c |-> Head(text).c, n |-> stop]>>
       ELSE <<Head(text)>> \o Slice(Tail(text), stop - Head(text).n)

(***************************************************************************)
(* Audio (pydub.AudioSegment): a sequence of chunks; src is the index of   *)
(* the script segment a clip was synthesized from, 0 for silence.           *)
(***************************************************************************)
\* AudioSegment.silent(duration=600)
PauseMs == 600

RECURSIVE AudioLen(_)
AudioLen(audio) ==
  IF audio = <<>> THEN 0 ELSE Head(audio).ms + AudioLen(Tail(audio))

Silence(ms) == <<[src |-> 0, ms |-> ms]>>

\* the combine loop of render_episode over the clips not yet visited,
\* pausing only between paragraphs
RECURSIVE CombineBetween(_, _)
CombineBetween(combined, clips) ==
  IF clips = <<>> THEN combined
  ELSE CombineBetween(
         combined \o <<Head(clips)>> \o
           (IF Len(clips) > 1 THEN Silence(PauseMs) ELSE <<>>),
         Tail(clips))

\* the combine loop of render_episode: combined += segment_audio + pause
RECURSIVE Combine(_, _)
Combine(combined, clips) ==
  IF clips = <<>> THEN combined
  ELSE Combine(combined \o <<Head(clips)>> \o Silence(PauseMs), Tail(clips))

(***************************************************************************)
(* Feeds.                                                                   *)
(***************************************************************************)
\* one step of sorted(..., key=pub_date, reverse=True): stable, newest first
RECURSIVE InsertByPubDate(_, _)
InsertByPubDate(sorted, e) ==
  IF sorted = <<>> THEN <<e>>
  ELSE IF Head(sorted).pub_date >= e.pub_date
       THEN <<Head(sorted)>> \o InsertByPubDate(Tail(sorted), e)
       ELSE <<e>> \o sorted

RECURSIVE SortNewestFirst(_)
SortNewestFirst(episodes) ==
  IF episodes = <<>> THEN <<>>
  ELSE InsertByPubDate(
         SortNewestFirst(SubSeq(episodes, 1, Len(episodes) - 1)),
         episodes[Len(episodes)])

\* fg.add_entry() for one episode
FeedEntry(ep) ==
  [id |-> ep.id, published |-> ep.pub_date, duration |-> ep.duration_seconds]

\* the entries generate_feed and generate_master_feed write for a list
FeedEntries(episodes) ==
  LET sorted == SortNewestFirst(episodes)
  IN  [i \in 1..Len(sorted) |-> FeedEntry(sorted[i])]

\* a filter that keeps the old episode of the same PR
KeepAll(manifest, id) == manifest

\* [e for e in manifest if e["id"] != episode_id]
WithoutId(manifest, id) ==
  LET Keep(e) == e.id # id IN SelectSeq(manifest, Keep)

\* [e for e in manifest if e["repo"] == repo]
OfRepo(manifest, repo) ==
  LET Mine(e) == e.repo = repo IN SelectSeq(manifest, Mine)


(***************************************************************************)
(* State.                                                                   *)
(***************************************************************************)
VARIABLES
  manifestFile,  \* feeds/episodes.json
  feedFiles,     \* feeds/{slug}.xml and feeds/prcast.xml
  audioFiles,    \* audio/{slug}/{episode_id}.mp3
  scriptFiles,   \* feeds/scripts/{episode_id}.json
  run,           \* per invocation: the locals of process_pr and render_episode,
                 \* with what the run has done so far (calls made, stages
                 \* entered, clip lengths received, the files as it found them)
  now,           \* datetime.now(timezone.utc), as a logical clock
  started,       \* the number of invocations started so far
  restarts,      \* the number of invocations started after a failed one
  completions,   \* per (repo, pr_number): the runs that returned an episode
  backend,       \* what the LLM and TTS collaborators can answer
  pm,            \* _parse_monologue applied on its own: raw, segments, done
  cp             \* collect_pr applied on its own: the diff the API answers,
                 \* the diff of the PRData returned, the request that failed

vars == <<manifestFile, feedFiles, audioFiles, scriptFiles, run, now, started,
          restarts, completions, backend, pm, cp>>

Procs == {"p1", "p2"}
\* the one process of the sequential command-line use
SeqProcs == {"p1"}

\* settings.LLM_PROVIDER, as the environment may set it
ProviderNames == {"openai", "gemini", "anthropic", "mistral"}
\* PROVIDERS.keys(), in insertion order
PROVIDERS == <<"openai", "gemini", "anthropic">>

KnownProviderUnchecked(provider) == TRUE

\* provider in PROVIDERS
KnownProvider(provider) == \E i \in 1..Len(PROVIDERS) : PROVIDERS[i] = provider

NoError == [type |-> "", stage |-> "", supported |-> <<>>]
NoEpisode ==
  [id |-> <<>>, repo |-> <<>>, pr_number |-> 0, audio_file |-> <<>>,
   duration_seconds |-> 0, pub_date |-> 0]

AbsentManifest == [state |-> "absent", episodes |-> <<>>]
AbsentFeed == [state |-> "absent", entries |-> <<>>]
AbsentAudio == [state |-> "absent", audio |-> <<>>, by |-> <<>>]
AbsentScript == [state |-> "absent", episode |-> NoEpisode, script |-> <<>>]

\* a file opened for writing whose content was not written in full
TruncatedManifest == [state |-> "partial", episodes |-> <<>>]
TruncatedFeed == [state |-> "partial", entries |-> <<>>]
TruncatedAudio(by) == [state |-> "partial", audio |-> <<>>, by |-> by]
TruncatedScript == [state |-> "partial", episode |-> NoEpisode, script |-> <<>>]

IdleRun ==
  [pc |-> "idle", repo |-> <<>>, pr_number |-> 0, provider |-> "",
   script |-> <<>>, i |-> 0, segment_paths |-> <<>>, tmpdir |-> {},
   clip_ms |-> <<>>,
   combined |-> <<>>,
   exported |-> FALSE, duration_seconds |-> 0, episode |-> NoEpisode,
   manifest |-> <<>>, saved |-> FALSE, error |-> NoError,
   llm_calls |-> 0, tts_calls |-> 0, trace |-> <<>>,
   before |-> [manifest |-> AbsentManifest,
               feeds |-> [f \in FeedPaths |-> AbsentFeed],
               audio |-> AbsentAudio]]

Terminal == {"idle", "done", "failed"}

\* the raise of an exception out of process_pr
Raise(r, stage, type) ==
  [r EXCEPT !.pc = "failed",
            !.error = [type |-> type, stage |-> stage, supported |-> <<>>]]

FilesUnchanged ==
  UNCHANGED <<manifestFile, feedFiles, audioFiles, scriptFiles>>
Frame == UNCHANGED <<now, started, restarts, completions, backend, pm, cp>>

(***************************************************************************)
(* cli.main: one invocation of process_pr(repo, pr_number).                *)
(***************************************************************************)
Start(p) ==
  /\ run[p].pc \in Terminal
  /\ started < MaxRuns
  /\ run[p].pc = "failed" => restarts < MaxRestarts
  /\ restarts' = IF run[p].pc = "failed" THEN restarts + 1 ELSE restarts
  /\ \E pair \in Pairs, provider \in ProviderNames :
       run' = [run EXCEPT ![p] =
                 [IdleRun EXCEPT
                    !.pc = "collecting", !.repo = pair[1],
                    !.pr_number = pair[2], !.provider = provider,
                    !.trace = <<"collecting">>,
                    !.before = [manifest |-> manifestFile,
                                feeds |-> feedFiles,
                                audio |-> audioFiles[AudioPath(pair[1], pair[2])]]]]
  /\ started' = started + 1
  /\ FilesUnchanged
  /\ UNCHANGED <<now, completions, backend, pm, cp>>

(***************************************************************************)
(* 1. collect_pr                                                            *)
(***************************************************************************)
CollectOk(p) ==
  /\ run[p].pc = "collecting"
  /\ run' = [run EXCEPT ![p] =
               [run[p] EXCEPT !.pc = "scripting",
                              !.trace = Append(@, "scripting")]]
  /\ FilesUnchanged /\ Frame

\* a collection failure that is swallowed instead of raised
CollectFailSwallowed(p) ==
  /\ run[p].pc = "collecting"
  /\ run' = [run EXCEPT ![p] =
               [Raise(run[p], "collecting", "HTTPStatusError")
                  EXCEPT !.pc = "scripting"]]
  /\ FilesUnchanged /\ Frame

\* raise_for_status() on any of the five requests
CollectFail(p) ==
  /\ run[p].pc = "collecting"
  /\ run' = [run EXCEPT ![p] = Raise(run[p], "collecting", "HTTPStatusError")]
  /\ FilesUnchanged /\ Frame

(***************************************************************************)
(* 2. generate_script                                                       *)
(***************************************************************************)
ScriptUnknownProvider(p) ==
  /\ run[p].pc = "scripting"
  /\ ~KnownProvider(run[p].provider)
  /\ run' = [run EXCEPT ![p] =
               [run[p] EXCEPT
                  !.pc = "failed",
                  !.error = [type |-> "ValueError", stage |-> "scripting",
                             supported |-> PROVIDERS]]]
  /\ FilesUnchanged /\ Frame

ScriptOk(p) ==
  /\ run[p].pc = "scripting"
  /\ KnownProvider(run[p].provider)
  /\ \E raw \in backend.llm_text :
       run' = [run EXCEPT ![p] =
                 [run[p] EXCEPT !.pc = "render",
                                !.llm_calls = @ + 1,
                                !.script = _parse_monologue(raw),
                                !.trace = Append(@, "rendering")]]
  /\ FilesUnchanged /\ Frame

\* the backend call fails (transport error or raise_for_status)
ScriptFail(p) ==
  /\ run[p].pc = "scripting"
  /\ KnownProvider(run[p].provider)
  /\ run' = [run EXCEPT ![p] =
               [Raise(run[p], "scripting", "HTTPStatusError")
                  EXCEPT !.llm_calls = @ + 1]]
  /\ FilesUnchanged /\ Frame


(***************************************************************************)
(* 3. render_episode                                                        *)
(***************************************************************************)
\* a temporary directory that is removed only when the block returns
ExitTmpDirOnReturnOnly(tmpdir, raised) == IF raised THEN tmpdir ELSE {}

\* leaving the block `with tempfile.TemporaryDirectory() as tmpdir`
ExitTmpDir(tmpdir, raised) == {}

\* AudioSegment.from_mp3(str(seg_path))
ReadClip(tmpdir, name) == (CHOOSE f \in tmpdir : f.name = name).clip

\* the clips of segment_paths, in the order of the list
ClipsOf(tmpdir, segment_paths) ==
  [k \in 1..Len(segment_paths) |-> ReadClip(tmpdir, segment_paths[k])]

\* an exception raised inside the with block of render_episode
RaiseInRender(r, type) ==
  [Raise(r, "rendering", type) EXCEPT !.tmpdir = ExitTmpDir(r.tmpdir, TRUE)]

\* output_dir.mkdir(...) and the creation of the temporary directory
RenderBegin(p) ==
  /\ run[p].pc = "render"
  /\ run' = [run EXCEPT ![p] = [run[p] EXCEPT !.pc = "synth"]]
  /\ FilesUnchanged /\ Frame

RenderBeginFail(p) ==
  /\ run[p].pc = "render"
  /\ run' = [run EXCEPT ![p] = Raise(run[p], "rendering", "OSError")]
  /\ FilesUnchanged /\ Frame

\* one iteration of the synthesis loop: render_segment writes seg_{i}.mp3
SynthOk(p) ==
  /\ run[p].pc = "synth"
  /\ run[p].i < Len(run[p].script)
  /\ \E ms \in backend.tts_ms :
       run' = [run EXCEPT ![p] =
                 [run[p] EXCEPT
                    !.tts_calls = @ + 1,
                    !.tmpdir = @ \cup {[name |-> run[p].i,
                                        clip |-> [src |-> run[p].i + 1,
                                                  ms |-> ms]]},
                    !.segment_paths = Append(@, run[p].i),
                    !.clip_ms = Append(@, ms),
                    !.i = @ + 1]]
  /\ FilesUnchanged /\ Frame

\* a synthesis failure that skips the segment and goes on
SynthFailSkipped(p) ==
  /\ run[p].pc = "synth"
  /\ run[p].i < Len(run[p].script)
  /\ run' = [run EXCEPT ![p] =
               [run[p] EXCEPT !.tts_calls = @ + 1, !.i = @ + 1]]
  /\ FilesUnchanged /\ Frame

\* render_segment raises: the exception leaves the loop and the with block
SynthFail(p) ==
  /\ run[p].pc = "synth"
  /\ run[p].i < Len(run[p].script)
  /\ run' = [run EXCEPT ![p] =
               [RaiseInRender(run[p], "SynthesisError")
                  EXCEPT !.tts_calls = @ + 1]]
  /\ FilesUnchanged /\ Frame

\* the loop over segment_paths
CombineOk(p) ==
  /\ run[p].pc = "synth"
  /\ run[p].i = Len(run[p].script)
  /\ run' = [run EXCEPT ![p] =
               [run[p] EXCEPT
                  !.pc = "export",
                  !.combined =
                     Combine(<<>>, ClipsOf(run[p].tmpdir, run[p].segment_paths))]]
  /\ FilesUnchanged /\ Frame

\* AudioSegment.from_mp3 raises on one of the segment files
CombineFail(p) ==
  /\ run[p].pc = "synth"
  /\ run[p].i = Len(run[p].script)
  /\ run[p].segment_paths # <<>>
  /\ run' = [run EXCEPT ![p] = RaiseInRender(run[p], "CouldntDecodeError")]
  /\ FilesUnchanged /\ Frame

\* combined.export(str(output_path), ...) and the return
ExportOk(p) ==
  /\ run[p].pc = "export"
  /\ audioFiles' =
       [audioFiles EXCEPT ![AudioPath(run[p].repo, run[p].pr_number)] =
          [state |-> "ok", audio |-> run[p].combined,
           by |-> <<run[p].repo, run[p].pr_number>>]]
  /\ run' = [run EXCEPT ![p] =
               [run[p] EXCEPT !.pc = "measuring", !.exported = TRUE,
                              !.tmpdir = ExitTmpDir(@, FALSE)]]
  /\ UNCHANGED <<manifestFile, feedFiles, scriptFiles>> /\ Frame

\* the export raises; the output file may have been opened for writing
ExportFail(p) ==
  /\ run[p].pc = "export"
  /\ \/ audioFiles' = audioFiles
     \/ audioFiles' =
          [audioFiles EXCEPT ![AudioPath(run[p].repo, run[p].pr_number)] =
             TruncatedAudio(<<run[p].repo, run[p].pr_number>>)]
  /\ run' = [run EXCEPT ![p] = RaiseInRender(run[p], "CouldntEncodeError")]
  /\ UNCHANGED <<manifestFile, feedFiles, scriptFiles>> /\ Frame


(***************************************************************************)
(* 4.-6. duration, episode metadata, script file                            *)
(***************************************************************************)
Mp3Ext == <<".", "m", "p", "3">>

\* the episode dict built by process_pr
BuildEpisode(repo, pr_number, duration_seconds, pub_date) ==
  [id |-> EpisodeId(repo, pr_number),
   repo |-> repo,
   pr_number |-> pr_number,
   audio_file |-> EpisodeId(repo, pr_number) \o Mp3Ext,
   duration_seconds |-> duration_seconds,
   pub_date |-> pub_date]

\* int(len(audio) / 1000)
DurationSeconds(audio) == AudioLen(audio) \div 1000

MeasureOk(p) ==
  LET file == audioFiles[AudioPath(run[p].repo, run[p].pr_number)]
  IN  /\ run[p].pc = "measuring"
      /\ file.state = "ok"
      /\ run' = [run EXCEPT ![p] =
                   [run[p] EXCEPT
                      !.pc = "script_file",
                      !.duration_seconds = DurationSeconds(file.audio),
                      !.episode = BuildEpisode(run[p].repo, run[p].pr_number,
                                               DurationSeconds(file.audio), now)]]
      /\ now' = now + 1
      /\ FilesUnchanged
      /\ UNCHANGED <<started, restarts, completions, backend, pm, cp>>

\* AudioSegment.from_mp3(str(audio_path)) raises
MeasureFail(p) ==
  /\ run[p].pc = "measuring"
  /\ run' = [run EXCEPT ![p] = Raise(run[p], "measuring", "CouldntDecodeError")]
  /\ FilesUnchanged /\ Frame

\* a script step that already records the episode in the manifest
WriteScriptOkSavingFirst(p) ==
  /\ run[p].pc = "script_file"
  /\ scriptFiles' = [scriptFiles EXCEPT ![run[p].episode.id] =
                       [state |-> "ok", episode |-> run[p].episode,
                        script |-> run[p].script]]
  /\ manifestFile' = [state |-> "ok",
                      episodes |-> Append(manifestFile.episodes, run[p].episode)]
  /\ run' = [run EXCEPT ![p] =
               [run[p] EXCEPT !.pc = "load",
                              !.trace = Append(@, "manifesting")]]
  /\ UNCHANGED <<feedFiles, audioFiles>> /\ Frame

\* script_dir.mkdir(exist_ok=True); script_path.write_text(...)
WriteScriptOk(p) ==
  /\ run[p].pc = "script_file"
  /\ scriptFiles' = [scriptFiles EXCEPT ![run[p].episode.id] =
                       [state |-> "ok", episode |-> run[p].episode,
                        script |-> run[p].script]]
  /\ run' = [run EXCEPT ![p] =
               [run[p] EXCEPT !.pc = "load",
                              !.trace = Append(@, "manifesting")]]
  /\ UNCHANGED <<manifestFile, feedFiles, audioFiles>> /\ Frame

WriteScriptFail(p) ==
  /\ run[p].pc = "script_file"
  /\ \/ scriptFiles' = scriptFiles
     \/ scriptFiles' = [scriptFiles EXCEPT ![run[p].episode.id] = TruncatedScript]
  /\ run' = [run EXCEPT ![p] = Raise(run[p], "script_file", "OSError")]
  /\ UNCHANGED <<manifestFile, feedFiles, audioFiles>> /\ Frame

(***************************************************************************)
(* 7. manifest: _load_manifest, filter, append, _save_manifest              *)
(***************************************************************************)
\* json.loads(manifest_path.read_text()), or [] when the file is absent
LoadOk(p) ==
  /\ run[p].pc = "load"
  /\ manifestFile.state # "partial"
  /\ run' = [run EXCEPT ![p] =
               [run[p] EXCEPT !.pc = "save",
                              !.manifest = manifestFile.episodes]]
  /\ FilesUnchanged /\ Frame

\* read_text or json.loads raises
LoadFail(p) ==
  /\ run[p].pc = "load"
  /\ run' = [run EXCEPT ![p] = Raise(run[p], "loading", "JSONDecodeError")]
  /\ FilesUnchanged /\ Frame

\* an update that puts the episode first
PrependedManifest(manifest, episode) ==
  <<episode>> \o WithoutId(manifest, episode.id)

\* the list the run writes: the loaded one without the id, plus the episode
UpdatedManifest(manifest, episode) ==
  Append(WithoutId(manifest, episode.id), episode)

\* a save that reads the file again and merges into what is there now
SaveMerging(p) ==
  /\ run[p].pc = "save"
  /\ manifestFile.state # "partial"
  /\ manifestFile' =
       [state |-> "ok",
        episodes |-> Append(WithoutId(manifestFile.episodes, run[p].episode.id),
                            run[p].episode)]
  /\ run' = [run EXCEPT ![p] =
               [run[p] EXCEPT
                  !.pc = "repo_feed", !.saved = TRUE,
                  !.manifest = Append(WithoutId(@, run[p].episode.id),
                                      run[p].episode),
                  !.trace = Append(@, "feed-publishing")]]
  /\ UNCHANGED <<feedFiles, audioFiles, scriptFiles>> /\ Frame

SaveOk(p) ==
  /\ run[p].pc = "save"
  /\ manifestFile' =
       [state |-> "ok",
        episodes |-> UpdatedManifest(run[p].manifest, run[p].episode)]
  /\ run' = [run EXCEPT ![p] =
               [run[p] EXCEPT
                  !.pc = "repo_feed", !.saved = TRUE,
                  !.manifest = UpdatedManifest(@, run[p].episode),
                  !.trace = Append(@, "feed-publishing")]]
  /\ UNCHANGED <<feedFiles, audioFiles, scriptFiles>> /\ Frame

\* write_text raises: at the open, or after the file was truncated
SaveFail(p) ==
  /\ run[p].pc = "save"
  /\ \/ manifestFile' = manifestFile
     \/ manifestFile' = TruncatedManifest
  /\ run' = [run EXCEPT ![p] =
               [Raise(run[p], "manifesting", "OSError")
                  EXCEPT !.manifest = UpdatedManifest(@, run[p].episode)]]
  /\ UNCHANGED <<feedFiles, audioFiles, scriptFiles>> /\ Frame

(***************************************************************************)
(* 8. generate_feed, generate_master_feed                                   *)
(***************************************************************************)
RepoFeedOk(p) ==
  /\ run[p].pc = "repo_feed"
  /\ feedFiles' =
       [feedFiles EXCEPT ![_repo_slug(run[p].repo)] =
          [state |-> "ok",
           entries |-> FeedEntries(OfRepo(run[p].manifest, run[p].repo))]]
  /\ run' = [run EXCEPT ![p] = [run[p] EXCEPT !.pc = "master_feed"]]
  /\ UNCHANGED <<manifestFile, audioFiles, scriptFiles>> /\ Frame

\* fg.rss_file raises: at the open, or after the file was truncated
RepoFeedFail(p) ==
  /\ run[p].pc = "repo_feed"
  /\ \/ feedFiles' = feedFiles
     \/ feedFiles' = [feedFiles EXCEPT ![_repo_slug(run[p].repo)] = TruncatedFeed]
  /\ run' = [run EXCEPT ![p] = Raise(run[p], "feed-publishing", "OSError")]
  /\ UNCHANGED <<manifestFile, audioFiles, scriptFiles>> /\ Frame

\* generate_master_feed reads episodes.json again, when it exists
MasterFeedOk(p) ==
  /\ run[p].pc = "master_feed"
  /\ manifestFile.state # "partial"
  /\ feedFiles' =
       [feedFiles EXCEPT ![MasterPath] =
          [state |-> "ok", entries |-> FeedEntries(manifestFile.episodes)]]
  /\ run' = [run EXCEPT ![p] = [run[p] EXCEPT !.pc = "done"]]
  /\ completions' =
       [completions EXCEPT ![<<run[p].repo, run[p].pr_number>>] = @ + 1]
  /\ UNCHANGED <<manifestFile, audioFiles, scriptFiles>>
  /\ UNCHANGED <<now, started, restarts, backend, pm, cp>>

MasterFeedFail(p) ==
  /\ run[p].pc = "master_feed"
  /\ \/ feedFiles' = feedFiles
     \/ feedFiles' = [feedFiles EXCEPT ![MasterPath] = TruncatedFeed]
  /\ run' = [run EXCEPT ![p] = Raise(run[p], "feed-publishing", "OSError")]
  /\ UNCHANGED <<manifestFile, audioFiles, scriptFiles>> /\ Frame

(***************************************************************************)
(* _parse_monologue on its own.                                             *)
(***************************************************************************)
RawChars == {"a", "SP", "LF"}

RawTexts == UNION {[1..n -> RawChars] : n \in 0..MaxRawLen}

ParseMonologue ==
  /\ ~pm.done
  /\ pm' = [pm EXCEPT !.segments = _parse_monologue(pm.raw), !.done = TRUE]
  /\ FilesUnchanged
  /\ UNCHANGED <<run, now, started, restarts, completions, backend, cp>>

(***************************************************************************)
(* collect_pr on its own.                                                   *)
(***************************************************************************)
\* the five requests of collect_pr, each followed by raise_for_status()
Requests == <<"pr", "diff", "reviews", "comments", "issue_comments">>

\* the lengths of the runs of a diff: around the stop of the slice
DiffRunLens == {1, DiffLimit - 1, DiffLimit, DiffLimit + 1}

\* diff_resp.text: up to MaxDiffRuns runs, of "+" and "-" in turn
DiffTexts ==
  UNION {{[k \in 1..n |->
             [c |-> IF (k % 2 = 1) = plus THEN "+" ELSE "-", n |-> lens[k]]] :
            lens \in [1..n -> DiffRunLens], plus \in BOOLEAN} :
         n \in 0..MaxDiffRuns}

\* every request answered: return PRData(..., diff=diff_resp.text[:50000], ...)
CollectPrReturn ==
  /\ cp.pc = "called"
  /\ cp' = [cp EXCEPT !.pc = "returned", !.diff = Slice(cp.text, DiffLimit)]
  /\ FilesUnchanged
  /\ UNCHANGED <<run, now, started, restarts, completions, backend, pm>>

\* raise_for_status() raises after one of the requests: no PRData is built
CollectPrRaise ==
  /\ cp.pc = "called"
  /\ \E k \in 1..Len(Requests) :
       cp' = [cp EXCEPT !.pc = "raised", !.failed = Requests[k]]
  /\ FilesUnchanged
  /\ UNCHANGED <<run, now, started, restarts, completions, backend, pm>>

(***************************************************************************)
(* Specifications.                                                          *)
(***************************************************************************)
NoFiles ==
  /\ manifestFile = AbsentManifest
  /\ feedFiles = [f \in FeedPaths |-> AbsentFeed]
  /\ audioFiles = [a \in AudioPaths |-> AbsentAudio]
  /\ scriptFiles = [f \in ScriptPaths |-> AbsentScript]

NoParse == pm = [raw |-> <<>>, segments |-> <<>>, done |-> TRUE]

NoCollect == cp = [pc |-> "idle", text |-> <<>>, diff |-> <<>>, failed |-> ""]

\* the answers of the collaborators in the runs of the whole pipeline
PipelineBackend ==
  [llm_text |-> {<<"a", "LF", "LF", "LF", "a", "SP">>}, tts_ms |-> {1000}]

\* the state before the first invocation, for the processes of the set
InitFor(procs) ==
  /\ NoFiles
  /\ run = [p \in procs |-> IdleRun]
  /\ now = 1
  /\ started = 0
  /\ restarts = 0
  /\ completions = [pair \in Pairs |-> 0]
  /\ backend = PipelineBackend
  /\ NoParse
  /\ NoCollect

Init == InitFor(SeqProcs)

\* the steps of render_episode
RenderStep(p) ==
  \/ RenderBegin(p) \/ RenderBeginFail(p)
  \/ SynthOk(p) \/ SynthFail(p)
  \/ CombineOk(p) \/ CombineFail(p)
  \/ ExportOk(p) \/ ExportFail(p)

\* the steps of process_pr
Step(p) ==
  \/ CollectOk(p) \/ CollectFail(p)
  \/ ScriptUnknownProvider(p) \/ ScriptOk(p) \/ ScriptFail(p)
  \/ RenderStep(p)
  \/ MeasureOk(p) \/ MeasureFail(p)
  \/ WriteScriptOk(p) \/ WriteScriptFail(p)
  \/ LoadOk(p) \/ LoadFail(p)
  \/ SaveOk(p) \/ SaveFail(p)
  \/ RepoFeedOk(p) \/ RepoFeedFail(p)
  \/ MasterFeedOk(p) \/ MasterFeedFail(p)

\* invocations one after the other
Next == \E p \in SeqProcs : Start(p) \/ Step(p)

Spec == Init /\ [][Next]_vars


(***************************************************************************)
(* Two invocations as separate processes, each run once, interleaved.      *)
(***************************************************************************)
StartOnce(p) == run[p].pc = "idle" /\ Start(p)

NextConc == \E p \in Procs : StartOnce(p) \/ Step(p)

InitConc == InitFor(Procs)

SpecConc == InitConc /\ [][NextConc]_vars

(***************************************************************************)
(* render_episode on its own: one call, for any script of up to MaxSegs    *)
(* segments, with or without an episode already at the final path.          *)
(***************************************************************************)
SegmentTexts == {<<"a">>, <<"b">>}

Scripts ==
  UNION {[1..n -> {[speaker |-> HOST_A_NAME, text |-> t] : t \in SegmentTexts}]
           : n \in 0..MaxSegs}

RenderBackend == [llm_text |-> {}, tts_ms |-> {1000, 2000, 1500}]

\* an episode rendered by an earlier run
EarlierAudio(by) ==
  [state |-> "ok", audio |-> <<[src |-> 1, ms |-> 5000], [src |-> 0, ms |-> PauseMs]>>,
   by |-> by]

InitRender ==
  /\ manifestFile = AbsentManifest
  /\ feedFiles = [f \in FeedPaths |-> AbsentFeed]
  /\ scriptFiles = [f \in ScriptPaths |-> AbsentScript]
  /\ now = 1
  /\ started = 1
  /\ restarts = 0
  /\ completions = [pair \in Pairs |-> 0]
  /\ backend = RenderBackend
  /\ NoParse
  /\ NoCollect
  /\ \E script \in Scripts, earlier \in {AbsentAudio, EarlierAudio(<<RepoXy, 1>>)} :
       /\ audioFiles = [a \in AudioPaths |->
                          IF a = AudioPath(RepoXy, 1) THEN earlier ELSE AbsentAudio]
       /\ run = [p \in SeqProcs |->
                   [IdleRun EXCEPT
                      !.pc = "render", !.repo = RepoXy, !.pr_number = 1,
                      !.provider = "openai", !.script = script,
                      !.llm_calls = 1,
                      !.trace = <<"collecting", "scripting", "rendering">>,
                      !.before = [manifest |-> AbsentManifest,
                                  feeds |-> [f \in FeedPaths |-> AbsentFeed],
                                  audio |-> earlier]]]

NextRender == \E p \in SeqProcs : RenderStep(p)

SpecRender == InitRender /\ [][NextRender]_vars

(***************************************************************************)
(* _parse_monologue on its own: any raw text of up to MaxRawLen characters. *)
(***************************************************************************)
InitParse ==
  /\ NoFiles
  /\ run = [p \in SeqProcs |-> IdleRun]
  /\ now = 1
  /\ started = 0
  /\ restarts = 0
  /\ completions = [pair \in Pairs |-> 0]
  /\ backend = PipelineBackend
  /\ pm \in {[raw |-> r, segments |-> <<>>, done |-> FALSE] : r \in RawTexts}
  /\ NoCollect

NextParse == ParseMonologue

SpecParse == InitParse /\ [][NextParse]_vars

(***************************************************************************)
(* collect_pr on its own: any diff of up to MaxDiffRuns runs.               *)
(***************************************************************************)
InitCollect ==
  /\ NoFiles
  /\ run = [p \in SeqProcs |-> IdleRun]
  /\ now = 1
  /\ started = 0
  /\ restarts = 0
  /\ completions = [pair \in Pairs |-> 0]
  /\ backend = PipelineBackend
  /\ NoParse
  /\ cp \in {[pc |-> "called", text |-> t, diff |-> <<>>, failed |-> ""] :
              t \in DiffTexts}

NextCollect == CollectPrReturn \/ CollectPrRaise

SpecCollect == InitCollect /\ [][NextCollect]_vars


(***************************************************************************)
(* Properties.                                                              *)
(***************************************************************************)
\* the stages of a run, in the order of the pipeline
StageOrder ==
  <<"collecting", "scripting", "rendering", "manifesting", "feed-publishing">>

\* the texts of a script, in order
Texts(script) == [i \in 1..Len(script) |-> script[i].text]

\* parts rejoined with a blank line between them
RECURSIVE join(_)
join(parts) ==
  IF parts = <<>> THEN <<>>
  ELSE IF Len(parts) = 1 THEN parts[1]
  ELSE parts[1] \o <<"LF", "LF">> \o join(Tail(parts))

\* the positions of the entries of a list that carry the id
WithId(entries, id) == {k \in 1..Len(entries) : entries[k].id = id}

IsPrefix(s, t) == Len(s) <= Len(t) /\ \A k \in 1..Len(s) : s[k] = t[k]

\* C1: when a run of process_pr(R, N) returns and (R, N) has by then been
\* processed successfully two or more times, the manifest holds exactly one
\* entry with the id of (R, N), that entry is the episode this latest run
\* built, and the feed of R this run wrote holds exactly one entry with the id.
ReprocessingReplaces ==
  \A p \in SeqProcs :
    (run[p].pc = "done"
       /\ completions[<<run[p].repo, run[p].pr_number>>] >= 2) =>
      LET id == EpisodeId(run[p].repo, run[p].pr_number)
          feed == feedFiles[_repo_slug(run[p].repo)]
      IN  /\ manifestFile.state = "ok"
          /\ Cardinality(WithId(manifestFile.episodes, id)) = 1
          /\ \A k \in WithId(manifestFile.episodes, id) :
               /\ manifestFile.episodes[k] = run[p].episode
               /\ manifestFile.episodes[k].pub_date = now - 1
          /\ feed.state = "ok"
          /\ Cardinality(WithId(feed.entries, id)) = 1
          /\ \A k \in WithId(feed.entries, id) :
               feed.entries[k].published = now - 1

\* (R, N) processed, then another PR, then (R, N) again
ReprocessedAfterAnother ==
  \E p \in SeqProcs :
    /\ run[p].pc = "done"
    /\ completions[<<run[p].repo, run[p].pr_number>>] >= 2
    /\ \E k \in 1..Len(manifestFile.episodes) :
         /\ manifestFile.episodes[k].id # run[p].episode.id
         /\ manifestFile.episodes[k].pub_date = run[p].episode.pub_date - 1

\* C2 as stated: whatever the stage a run fails at, the manifest file and
\* every feed file are as they were when the run started.
FailedRunLeavesFilesUntouched ==
  \A p \in SeqProcs :
    run[p].pc = "failed" =>
      /\ manifestFile = run[p].before.manifest
      /\ feedFiles = run[p].before.feeds

\* C2 as amended: a run that fails before it starts to write the manifest
\* (collecting, scripting, rendering, measuring the duration, writing the
\* script file, loading the manifest) leaves the manifest file and every feed
\* file as they were when the run started.
FailureBeforeSaveLeavesFilesUntouched ==
  \A p \in SeqProcs :
    (run[p].pc = "failed"
       /\ run[p].error.stage \in {"collecting", "scripting", "rendering",
                                  "measuring", "script_file", "loading"}) =>
      /\ manifestFile = run[p].before.manifest
      /\ feedFiles = run[p].before.feeds

\* a run fails loading the manifest that an earlier run has written
FailedAfterAnEarlierEpisode ==
  \E p \in SeqProcs :
    /\ run[p].pc = "failed"
    /\ run[p].error.stage = "loading"
    /\ manifestFile.state = "ok"
    /\ feedFiles[MasterPath].state = "ok"

\* C3: the stages of a run are entered in the order collecting, scripting,
\* rendering, manifesting, feed-publishing; a run whose collection failed has
\* made no LLM call, a run whose scripting failed has made no TTS synthesis,
\* and a run whose rendering failed has not written the manifest.
StagesInOrder ==
  \A p \in SeqProcs :
    /\ IsPrefix(run[p].trace, StageOrder)
    /\ run[p].llm_calls > 0 => Len(run[p].trace) >= 2
    /\ run[p].tts_calls > 0 => Len(run[p].trace) >= 3
    /\ run[p].saved => Len(run[p].trace) >= 4
    /\ run[p].error.stage = "collecting" =>
         run[p].llm_calls = 0 /\ run[p].tts_calls = 0 /\ ~run[p].saved
    /\ run[p].error.stage = "scripting" =>
         run[p].tts_calls = 0 /\ ~run[p].saved
    /\ run[p].error.stage = "rendering" =>
         ~run[p].saved /\ manifestFile = run[p].before.manifest

\* a render that failed after a synthesis, with a manifest on disk
RenderFailedWithManifestOnDisk ==
  \E p \in SeqProcs :
    /\ run[p].pc = "failed"
    /\ run[p].error.stage = "rendering"
    /\ run[p].tts_calls >= 1
    /\ manifestFile.state = "ok"

\* C4: a pair that has been processed successfully keeps its manifest entry
\* and its audio file whatever other pairs are processed afterwards (the ids
\* of different pairs differ).
DistinctPairsKeepTheirEpisodes ==
  \A pair \in Pairs :
    (completions[pair] >= 1 /\ manifestFile.state = "ok") =>
      /\ \E k \in 1..Len(manifestFile.episodes) :
           /\ manifestFile.episodes[k].repo = pair[1]
           /\ manifestFile.episodes[k].pr_number = pair[2]
      /\ audioFiles[AudioPath(pair[1], pair[2])].by = pair


\* C5: the manifest is not serialized between processes: the list a run saves
\* is the list it loaded earlier, without its id and with its episode, whatever
\* another process has saved in between (the last writer wins).
SaveWritesOwnSnapshot ==
  [][\A p \in Procs :
       (run[p].pc = "save" /\ run'[p].pc = "repo_feed") =>
         /\ manifestFile'.state = "ok"
         /\ manifestFile'.episodes =
              Append(SelectSeq(run[p].manifest,
                               LAMBDA e : e.id # run[p].episode.id),
                     run[p].episode)]_vars

\* both runs, for PRs with different ids, have returned their episode, and the
\* manifest holds the episode of one of them only
LostUpdate ==
  \E p \in Procs, q \in Procs :
    /\ run[p].pc = "done" /\ run[q].pc = "done"
    /\ run[p].error = NoError /\ run[q].error = NoError
    /\ run[p].episode.id # run[q].episode.id
    /\ manifestFile = [state |-> "ok", episodes |-> <<run[q].episode>>]

\* C6: whenever render_episode has returned or raised, no temporary segment
\* file of the call exists.
TmpFilesRemovedOnEveryExit ==
  \A p \in SeqProcs :
    run[p].pc \notin {"synth", "export"} => run[p].tmpdir = {}

\* the export failed after two segment files had been written
ExportFailedAfterTwoSegments ==
  \E p \in SeqProcs :
    /\ run[p].pc = "failed"
    /\ run[p].error.type = "CouldntEncodeError"
    /\ Len(run[p].segment_paths) >= 2

\* C7: the export happens only after every segment of the script has been
\* synthesized, and a call in which a synthesis failed has raised without
\* writing the final path.
NoExportAfterFailedSynthesis ==
  \A p \in SeqProcs :
    /\ run[p].exported =>
         /\ run[p].tts_calls = Len(run[p].script)
         /\ Len(run[p].clip_ms) = Len(run[p].script)
    /\ run[p].tts_calls > Len(run[p].clip_ms) =>
         /\ run[p].pc = "failed"
         /\ ~run[p].exported
         /\ audioFiles[AudioPath(run[p].repo, run[p].pr_number)]
              = run[p].before.audio

\* the synthesis of a later segment failed, with an earlier episode at the path
SynthesisFailedMidway ==
  \E p \in SeqProcs :
    /\ run[p].error.type = "SynthesisError"
    /\ Len(run[p].clip_ms) >= 1
    /\ run[p].before.audio.state = "ok"

RECURSIVE SumSeq(_)
SumSeq(s) == IF s = <<>> THEN 0 ELSE Head(s) + SumSeq(Tail(s))

RECURSIVE RunEnd(_, _)
RunEnd(s, i) ==
  IF i < Len(s) /\ s[i + 1] \in Whitespace THEN RunEnd(s, i + 1) ELSE i

HasBlankLine(s, i, j) == \E k \in i..(j - 1) : s[k] = "LF" /\ s[k + 1] = "LF"

\* s from position i on, with every maximal run of whitespace that holds a
\* blank line replaced by exactly one blank line
RECURSIVE NormalizeFrom(_, _)
NormalizeFrom(s, i) ==
  IF i > Len(s) THEN <<>>
  ELSE IF s[i] \notin Whitespace THEN <<s[i]>> \o NormalizeFrom(s, i + 1)
  ELSE LET j == RunEnd(s, i)
       IN  (IF HasBlankLine(s, i, j) THEN <<"LF", "LF">> ELSE SubSeq(s, i, j))
             \o NormalizeFrom(s, j + 1)

\* no whitespace next to a blank line
BlankLinesAreBare(s) ==
  \A k \in 1..(Len(s) - 1) :
    (s[k] = "LF" /\ s[k + 1] = "LF") =>
      /\ k > 1 => s[k - 1] \notin Whitespace
      /\ k + 2 <= Len(s) => s[k + 2] \notin Whitespace

\* C9 as stated: the texts of the segments, rejoined with a blank line, are
\* the trimmed raw text.
RejoinedIsTrimmedRaw ==
  pm.done => join(Texts(pm.segments)) = strip(pm.raw)

\* C9 as amended: the texts of the segments, rejoined with a blank line, are
\* the trimmed raw text with every run of whitespace that holds a blank line
\* replaced by exactly one blank line; they are the trimmed raw text itself
\* exactly when no whitespace stands next to a blank line in it.
RejoinedIsNormalizedRaw ==
  pm.done =>
    /\ join(Texts(pm.segments)) = NormalizeFrom(strip(pm.raw), 1)
    /\ BlankLinesAreBare(strip(pm.raw))
         <=> join(Texts(pm.segments)) = strip(pm.raw)

\* two paragraphs, parsed, with whitespace beside the blank line
ParsedPaddedParagraphs ==
  /\ pm.done
  /\ Len(pm.segments) = 2
  /\ ~BlankLinesAreBare(strip(pm.raw))

\* C10: a run whose configured provider is none of openai, gemini, anthropic
\* makes no LLM call, and once past the collection it has failed in
\* generate_script with the error that lists the three supported providers.
UnknownProviderFailsWithoutCall ==
  \A p \in SeqProcs :
    (run[p].pc # "idle"
       /\ run[p].provider \notin {"openai", "gemini", "anthropic"}) =>
      /\ run[p].llm_calls = 0
      /\ run[p].tts_calls = 0
      /\ run[p].pc \in {"collecting", "scripting", "failed"}
      /\ (run[p].pc = "failed" /\ run[p].error.stage # "collecting") =>
           run[p].error = [type |-> "ValueError", stage |-> "scripting",
                           supported |-> <<"openai", "gemini", "anthropic">>]

\* generate_script has raised for the provider mistral
UnknownProviderRaised ==
  \E p \in SeqProcs :
    /\ run[p].pc = "failed"
    /\ run[p].provider = "mistral"
    /\ run[p].error.type = "ValueError"


\* the smaller of two numbers
Min(a, b) == IF a <= b THEN a ELSE b

\* C11: the diff of the PRData that collect_pr returns is the first
\* min(length, 50000) characters of the diff the API answered: as long as
\* that, and the same character at every position; so a diff longer than
\* 50,000 characters is stored as exactly its first 50,000 characters, and no
\* stored diff is longer than 50,000 characters.
StoredDiffIsFirst50000 ==
  cp.pc = "returned" =>
    /\ TextLen(cp.diff) = Min(TextLen(cp.text), DiffLimit)
    /\ TextLen(cp.diff) <= DiffLimit
    /\ \A i \in 1..TextLen(cp.diff) : CharAt(cp.diff, i) = CharAt(cp.text, i)
    /\ TextLen(cp.text) > DiffLimit => TextLen(cp.diff) = DiffLimit

\* a diff longer than the limit was cut inside its second run
TruncatedInsideSecondRun ==
  /\ cp.pc = "returned"
  /\ TextLen(cp.text) > DiffLimit
  /\ Len(cp.text) = 2
  /\ Len(cp.diff) = 2
  /\ cp.diff[2].n < cp.text[2].n


\* every invocation so far returned an episode, and none is under way
OnlySuccessfulRuns ==
  /\ restarts = 0
  /\ \A p \in DOMAIN run : run[p].pc \in {"idle", "done"}

\* the repositories process_pr has returned an episode for
Processed == {pair[1] : pair \in {q \in Pairs : completions[q] >= 1}}

\* the entries are one entry for each of the episodes, and nothing else
IsProjection(entries, episodes) ==
  /\ Len(entries) = Len(episodes)
  /\ \A k \in 1..Len(episodes) :
       Cardinality({j \in 1..Len(entries) :
                      entries[j] = FeedEntry(episodes[k])}) = 1
  /\ \A j \in 1..Len(entries) :
       \E k \in 1..Len(episodes) : entries[j] = FeedEntry(episodes[k])

\* C12: after successful runs, one after the other, the feed of every
\* processed repository holds exactly one entry for each episode of that
\* repository in the manifest and no other entry, and the master feed holds
\* exactly one entry for each episode of the manifest.
FeedsAreProjectionOfManifest ==
  (OnlySuccessfulRuns /\ started >= 1) =>
    /\ \A repo \in Processed :
         IsProjection(feedFiles[_repo_slug(repo)].entries,
                      OfRepo(manifestFile.episodes, repo))
    /\ IsProjection(feedFiles[MasterPath].entries, manifestFile.episodes)


\* the positions of the entries of a list whose id is another one
Others(episodes, id) == {k \in 1..Len(episodes) : episodes[k].id # id}

\* C13: a successful manifest update changes the manifest only by removing
\* the entries with the id of the new episode and appending the new episode
\* as the last element: every other entry of the manifest before the run is
\* still there, unmodified, in the same relative order, and nothing else is.
UpdateKeepsOtherEntries ==
  \A p \in DOMAIN run :
    (run[p].saved /\ run[p].pc \in {"repo_feed", "master_feed", "done"}) =>
      LET old == run[p].before.manifest.episodes
          new == manifestFile.episodes
          kept == Others(old, run[p].episode.id)
      IN  /\ manifestFile.state = "ok"
          /\ Len(new) = Cardinality(kept) + 1
          /\ new[Len(new)] = run[p].episode
          /\ \A k \in kept :
               new[Cardinality({j \in kept : j <= k})] = old[k]

\* a PR was processed again after a PR of another repository: its old entry,
\* the first of two, was removed, and the other entry moved up unmodified
ReprocessedFirstOfTwo ==
  \E p \in DOMAIN run :
    /\ run[p].saved /\ run[p].pc = "done"
    /\ Len(run[p].before.manifest.episodes) = 2
    /\ run[p].before.manifest.episodes[1].id = run[p].episode.id
    /\ run[p].before.manifest.episodes[2].repo # run[p].repo
    /\ _repo_slug(run[p].before.manifest.episodes[2].repo) # _repo_slug(run[p].repo)
    /\ Len(manifestFile.episodes) = 2

====
